---- MODULE Spec2Model ----
(***************************************************************************)
(* A model of the ads / packages service: the connection manager           *)
(* (mongodb_connection_manager.py), the start-up of the application        *)
(* (app.py, and the module-level code of routes.py) and the ten request    *)
(* handlers of routes.py, each one atomic action over the two MongoDB      *)
(* collections 'ads' and 'packages'.  A second specification, SpecConc,    *)
(* takes add_ad_event one store call at a time, so that concurrent         *)
(* requests interleave between the calls.                                  *)
(*                                                                         *)
(* JSON / BSON values are records [k |-> kind, v |-> payload]; a float is  *)
(* held in thousandths (0.5 is JFloat(500)), so that the arithmetic of the  *)
(* analytics handlers is integer arithmetic.                               *)
(***************************************************************************)
EXTENDS Integers, Sequences, FiniteSets, TLC

VARIABLES
    pc,        \* where the process is: "boot", "imported", "serving", "crashed"
    db,        \* MongoConnectionManager.__db: None or the database handle
    clients,   \* how many times MongoClient(...) was created (connection attempts)
    ads,       \* the 'ads' collection: _id -> document
    packages,  \* the 'packages' collection: _id -> document
    resp,      \* the last response sent: the handler, the status and the JSON body
    reqs,      \* the add_ad_event requests taken call by call: position and locals
    hist       \* history: what was uploaded under each _id, and what touched it since

vars == <<pc, db, clients, ads, packages, resp, reqs, hist>>

(***************************************************************************)
(* Bounds of the model.                                                    *)
(***************************************************************************)
\* add_ad_event is not taken once this many events are stored in total
MaxEvents == 2

\* the number of add_ad_event requests that SpecConc takes call by call
MaxReqs == 2

\* the values uuid.uuid4() can produce, and the package names clients use
AdIds == {"X", "Y"}
PkgNames == {"pkg1"}

(***************************************************************************)
(* JSON values and Python's isinstance on them.                            *)
(***************************************************************************)
None == "None"

JStr(s) == [k |-> "str", v |-> s]
JInt(n) == [k |-> "int", v |-> n]
JFloat(m) == [k |-> "float", v |-> m]
JBool(b) == [k |-> "bool", v |-> b]
Null == [k |-> "null", v |-> 0]
Array == [k |-> "array", v |-> 0]
Object == [k |-> "object", v |-> 0]

\* isinstance(x, str)
IsStr(x) == x.k = "str"
\* isinstance(x, int): bool is a subclass of int in Python
IsInt(x) == x.k \in {"int", "bool"}
\* isinstance(x, (int, float))
IsNumber(x) == x.k \in {"int", "float", "bool"}
\* isinstance(x, bool)
IsBool(x) == x.k = "bool"

\* the numeric value of a stored number, in thousandths (True is 1, False is 0)
Milli(x) ==
    CASE x.k = "float" -> x.v
      [] x.k = "int" -> 1000 * x.v
      [] x.k = "bool" -> (IF x.v THEN 1000 ELSE 0)

\* the value of an integer (or boolean) counter
Count(x) ==
    CASE x.k = "int" -> x.v
      [] x.k = "bool" -> (IF x.v THEN 1 ELSE 0)

StrFields == <<"video_link", "advertiser_link", "advertiser_icon">>
PriceFields == <<"price_per_click", "price_per_impression">>
CounterFields == <<"number_of_clicks", "number_of_impressions">>
required_fields == StrFields \o PriceFields

Range(s) == {s[i] : i \in DOMAIN s}

(***************************************************************************)
(* Responses: jsonify(...), status.                                        *)
(***************************************************************************)
Resp(op, status, key, msg, detail) ==
    [op |-> op, status |-> status, key |-> key, msg |-> msg, detail |-> detail]

NoResp == Resp("none", 0, "none", "", {})
IsResp(r) == r.op # "none"
CouldNotConnect(op) == Resp(op, 500, "error", "Could not connect to the database", {})
\* the except branch of a handler: str(e) of whatever the store raised
StoreError(op) == Resp(op, 500, "error", "str(e)", {})

(***************************************************************************)
(* MongoConnectionManager.  `ok' is whether the server answers the ping.   *)
(***************************************************************************)
initialize_db(cur, n, ok) ==
    IF cur = None
    THEN [db |-> IF ok THEN "videosads" ELSE None, clients |-> n + 1]
    ELSE [db |-> cur, clients |-> n]

get_db(cur, n, ok) ==
    IF cur = None THEN initialize_db(cur, n, ok) ELSE [db |-> cur, clients |-> n]

\* the outcomes of the ping that a call of get_db may see
Pings == IF db = None THEN BOOLEAN ELSE {TRUE}

(***************************************************************************)
(* The store: pymongo's collection operations on a collection c, a         *)
(* function from _id to document.                                          *)
(***************************************************************************)
Has(c, id) == id \in DOMAIN c

insert_one(c, id, doc) == [x \in DOMAIN c \cup {id} |-> IF x = id THEN doc ELSE c[x]]

\* a variant that writes the document anew: a counter the update does not
\* give goes back to 0
update_set_anew(c, id, update_data) ==
    [c EXCEPT ![id] =
        [f \in DOMAIN c[id] |->
            IF f \in DOMAIN update_data THEN update_data[f]
            ELSE IF f \in {"number_of_clicks", "number_of_impressions"} THEN JInt(0)
            ELSE c[id][f]]]

\* update_one({"_id": id}, {"$set": update_data}): the merge of the fields given
update_set(c, id, update_data) ==
    [c EXCEPT ![id] =
        [f \in DOMAIN c[id] |-> IF f \in DOMAIN update_data THEN update_data[f] ELSE c[id][f]]]

\* $inc applies to int, long, double and decimal fields only
IncFaults(c, id, field) == Has(c, id) /\ c[id][field].k \notin {"int", "float"}

\* update_one({"_id": id}, {"$inc": {field: 1}}): no document matched, no change
update_inc(c, id, field) ==
    IF ~Has(c, id) THEN c
    ELSE [c EXCEPT ![id][field] =
            IF @.k = "float" THEN JFloat(@.v + 1000) ELSE JInt(@.v + 1)]

\* update_one({"_id": id}, {"$push": {"ads_events": ev}})
update_push(c, id, ev) ==
    IF ~Has(c, id) THEN c
    ELSE [c EXCEPT ![id].ads_events = Append(@, ev)]

delete_one(c, id) == [x \in DOMAIN c \ {id} |-> c[x]]

delete_many(c) == [x \in {} |-> c[x]]

(***************************************************************************)
(* What a handler leaves behind: the two collections and the response.     *)
(* `fault' is the number of the store call at which the store raises       *)
(* (0: it never does); the call that raises has no effect, and the         *)
(* handler's except branch answers 500.                                    *)
(***************************************************************************)
Out(a, p, r) == [ads |-> a, packages |-> p, resp |-> r]

\* a handler that calls get_db() first and then works on the store
ServeStore(op, ok, out) ==
    /\ pc = "serving"
    /\ LET g == get_db(db, clients, ok) IN
        /\ db' = g.db
        /\ clients' = g.clients
        /\ IF g.db = None
           THEN /\ resp' = CouldNotConnect(op)
                /\ UNCHANGED <<ads, packages>>
           ELSE /\ ads' = out.ads
                /\ packages' = out.packages
                /\ resp' = out.resp
    /\ UNCHANGED pc

\* ... as one step, with no request under way call by call
Serve(op, ok, out) == ServeStore(op, ok, out) /\ UNCHANGED <<reqs, hist>>

\* a handler that returns before it calls get_db()
Reject(r) ==
    /\ pc = "serving"
    /\ resp' = r
    /\ UNCHANGED <<pc, db, clients, ads, packages, reqs, hist>>

(***************************************************************************)
(* 1. upload_ad                                                            *)
(***************************************************************************)
MissingFields(fields, data) == SelectSeq(fields, LAMBDA f : f \notin DOMAIN data)

\* the first field of `fields' whose value in data is not of type t, or None
RECURSIVE FirstIllTyped(_, _, _)
TypeMatches(t, x) ==
    CASE t = "str" -> IsStr(x)
      [] t = "int" -> IsInt(x)
      [] t = "number" -> IsNumber(x)
      [] t = "bool" -> IsBool(x)

FirstIllTyped(fields, data, t) ==
    IF fields = <<>> THEN None
    ELSE IF Head(fields) \in DOMAIN data /\ ~TypeMatches(t, data[Head(fields)])
         THEN Head(fields)
         ELSE FirstIllTyped(Tail(fields), data, t)

\* data.get(field, default)
Get(data, field, default) == IF field \in DOMAIN data THEN data[field] ELSE default

\* a variant that keeps the _id of the body when there is one
ad_object_client_id(data, uuid) ==
    [_id |-> Get(data, "_id", JStr(uuid)),
     video_link |-> data["video_link"],
     advertiser_link |-> data["advertiser_link"],
     advertiser_icon |-> data["advertiser_icon"],
     number_of_clicks |-> Get(data, "number_of_clicks", JInt(0)),
     number_of_impressions |-> Get(data, "number_of_impressions", JInt(0)),
     price_per_click |-> data["price_per_click"],
     price_per_impression |-> data["price_per_impression"]]

ad_object(data, uuid) ==
    [_id |-> JStr(uuid),
     video_link |-> data["video_link"],
     advertiser_link |-> data["advertiser_link"],
     advertiser_icon |-> data["advertiser_icon"],
     number_of_clicks |-> Get(data, "number_of_clicks", JInt(0)),
     number_of_impressions |-> Get(data, "number_of_impressions", JInt(0)),
     price_per_click |-> data["price_per_click"],
     price_per_impression |-> data["price_per_impression"]]

\* the validation of upload_ad: the 400 response, or None when the body is valid
upload_ad_invalid(data) ==
    LET missing == MissingFields(required_fields, data)
        s == FirstIllTyped(StrFields, data, "str")
        n == FirstIllTyped(PriceFields, data, "number")
        i == FirstIllTyped(CounterFields, data, "int")
    IN  IF missing # <<>>
        THEN Resp("upload_ad", 400, "error", "Missing required fields", missing)
        ELSE IF s # None
        THEN Resp("upload_ad", 400, "error", "The field should be a string", s)
        ELSE IF n # None
        THEN Resp("upload_ad", 400, "error", "The field should be a number", n)
        ELSE IF i # None
        THEN Resp("upload_ad", 400, "error", "The field should be an integer", i)
        ELSE NoResp

upload_ad_out(data, uuid, fault) ==
    LET bad == upload_ad_invalid(data) IN
    IF IsResp(bad) THEN Out(ads, packages, bad)
    ELSE IF fault = 1 \/ Has(ads, uuid)   \* insert_one raises (DuplicateKeyError)
    THEN Out(ads, packages, StoreError("upload_ad"))
    ELSE Out(insert_one(ads, uuid, ad_object(data, uuid)), packages,
             Resp("upload_ad", 201, "message", "Ad uploaded successfully!", uuid))

upload_ad(data, uuid, ok, fault) == Serve("upload_ad", ok, upload_ad_out(data, uuid, fault))

(***************************************************************************)
(* 3. update_ad                                                            *)
(***************************************************************************)
expected_field_types ==
    [advertiser_icon |-> "str",
     advertiser_link |-> "str",
     number_of_clicks |-> "int",
     number_of_impressions |-> "int",
     price_per_click |-> "number",
     price_per_impression |-> "number",
     video_link |-> "str"]

\* errors: the keys of data refused, each with the message it gets
update_errors(data) ==
    {[field |-> key, msg |-> "Invalid field provided"] :
        key \in {x \in DOMAIN data : x \notin DOMAIN expected_field_types}}
    \cup
    {[field |-> key, msg |-> "Field must be of type"] :
        key \in {x \in DOMAIN data :
                    /\ x \in DOMAIN expected_field_types
                    /\ ~TypeMatches(expected_field_types[x], data[x])}}

\* update_data: the valid fields of data
update_data_of(data) ==
    LET keep == {key \in DOMAIN data :
                    /\ key \in DOMAIN expected_field_types
                    /\ TypeMatches(expected_field_types[key], data[key])}
    IN  [key \in keep |-> data[key]]

\* a variant that refuses a body only when no field of it is valid
update_ad_invalid_lenient(data) ==
    IF DOMAIN data = {}
    THEN Resp("update_ad", 400, "error", "Request body is empty", {})
    ELSE IF DOMAIN update_data_of(data) = {}
    THEN Resp("update_ad", 400, "error", "No valid fields to update", {})
    ELSE NoResp

\* the validation of update_ad: the 400 response, or NoResp when the body is valid
update_ad_invalid(data) ==
    IF DOMAIN data = {}
    THEN Resp("update_ad", 400, "error", "Request body is empty", {})
    ELSE IF update_errors(data) # {}
    THEN Resp("update_ad", 400, "error", "Invalid input", update_errors(data))
    ELSE IF DOMAIN update_data_of(data) = {}
    THEN Resp("update_ad", 400, "error", "No valid fields to update", {})
    ELSE NoResp

update_ad_out(ad_id, data, fault) ==
    IF fault = 1
    THEN Out(ads, packages, StoreError("update_ad"))
    ELSE IF ~Has(ads, ad_id)   \* result.matched_count == 0
    THEN Out(ads, packages, Resp("update_ad", 404, "error", "Ad not found", {}))
    ELSE Out(update_set(ads, ad_id, update_data_of(data)), packages,
             Resp("update_ad", 200, "message", "Ad updated successfully!", {}))

update_ad(ad_id, data, ok, fault) ==
    IF IsResp(update_ad_invalid(data))
    THEN Reject(update_ad_invalid(data))
    ELSE Serve("update_ad", ok, update_ad_out(ad_id, data, fault))

(***************************************************************************)
(* 2. get_random_ad, 4. get_all_ads                                        *)
(***************************************************************************)
\* str(x) of a value that is a string already
py_str(x) == IF x.k = "str" THEN x ELSE JStr("?")

\* the document as the handlers send it: _id = str(_id)
Jsonified(doc) == [doc EXCEPT !["_id"] = py_str(@)]

\* `pick' is the document that $sample draws
get_random_ad_out(pick, fault) ==
    IF fault = 1
    THEN Out(ads, packages, StoreError("get_random_ad"))
    ELSE IF DOMAIN ads = {}
    THEN Out(ads, packages, Resp("get_random_ad", 404, "error", "No ads available", {}))
    ELSE Out(ads, packages, Resp("get_random_ad", 200, "ad", "", {Jsonified(ads[pick])}))

get_random_ad(pick, ok, fault) ==
    /\ DOMAIN ads # {} => pick \in DOMAIN ads
    /\ Serve("get_random_ad", ok, get_random_ad_out(pick, fault))

\* list(ads_collection.find()), each _id made a string
all_ads(c) == {Jsonified(c[id]) : id \in DOMAIN c}

get_all_ads_out(fault) ==
    IF fault = 1
    THEN Out(ads, packages, StoreError("get_all_ads"))
    ELSE Out(ads, packages, Resp("get_all_ads", 200, "ads", "", all_ads(ads)))

get_all_ads(ok, fault) == Serve("get_all_ads", ok, get_all_ads_out(fault))

(***************************************************************************)
(* 5. delete_ad, 6. delete_all_ads                                         *)
(***************************************************************************)
delete_ad_out(ad_id, fault) ==
    IF fault = 1
    THEN Out(ads, packages, StoreError("delete_ad"))
    ELSE IF ~Has(ads, ad_id)   \* result.deleted_count == 0
    THEN Out(ads, packages, Resp("delete_ad", 404, "error", "Ad not found", {}))
    ELSE Out(delete_one(ads, ad_id), packages,
             Resp("delete_ad", 200, "message", "Ad deleted successfully!", {}))

delete_ad(ad_id, ok, fault) == Serve("delete_ad", ok, delete_ad_out(ad_id, fault))

delete_all_ads_out(fault) ==
    IF fault = 1
    THEN Out(ads, packages, StoreError("delete_all_ads"))
    ELSE IF Cardinality(DOMAIN ads) = 0   \* result.deleted_count == 0
    THEN Out(delete_many(ads), packages,
             Resp("delete_all_ads", 404, "message", "No ads to delete", {}))
    ELSE Out(delete_many(ads), packages,
             Resp("delete_all_ads", 200, "message", "All ads deleted successfully!", {}))

delete_all_ads(ok, fault) == Serve("delete_all_ads", ok, delete_all_ads_out(fault))

(***************************************************************************)
(* 7. create_package                                                       *)
(***************************************************************************)
package_object(package_name) == [_id |-> package_name, ads_events |-> <<>>]

\* a variant without the find_one: the package is written anew on every call
create_package_overwrite(package_name, fault) ==
    IF fault \in {1, 2}
    THEN Out(ads, packages, StoreError("create_package"))
    ELSE Out(ads, insert_one(packages, package_name, package_object(package_name)),
             Resp("create_package", 200, "message", "Package created successfully!", package_name))

create_package_out(package_name, fault) ==
    IF fault = 1
    THEN Out(ads, packages, StoreError("create_package"))
    ELSE IF Has(packages, package_name)   \* existing_package
    THEN Out(ads, packages,
             Resp("create_package", 200, "message", "Package already exists.", package_name))
    ELSE IF fault = 2
    THEN Out(ads, packages, StoreError("create_package"))
    ELSE Out(ads, insert_one(packages, package_name, package_object(package_name)),
             Resp("create_package", 200, "message", "Package created successfully!", package_name))

create_package(package_name, ok, fault) ==
    Serve("create_package", ok, create_package_out(package_name, fault))

(***************************************************************************)
(* 8. add_ad_event                                                         *)
(***************************************************************************)
\* datetime.now().isoformat(): the instant itself is not modelled
date_time == "now"

\* the validation of add_ad_event: the 400 response, or NoResp
add_ad_event_invalid(data) ==
    LET missing == MissingFields(<<"ad_id", "is_clicked">>, data) IN
    IF missing # <<>>
    THEN Resp("add_ad_event", 400, "error", "Missing required fields", missing)
    ELSE IF ~IsStr(data["ad_id"])
    THEN Resp("add_ad_event", 400, "error", "'ad_id' must be a string", {})
    ELSE IF ~IsBool(data["is_clicked"])
    THEN Resp("add_ad_event", 400, "error", "'is_clicked' must be a boolean", {})
    ELSE NoResp

ad_event(data) ==
    [ad_id |-> data["ad_id"].v, date_time |-> date_time, is_clicked |-> data["is_clicked"].v]

\* a variant that looks for the ad before it looks for the package
add_ad_event_missing_ad_first(package_name, ad_id, fault) ==
    IF fault = 1
    THEN StoreError("add_ad_event")
    ELSE IF ~Has(ads, ad_id)
    THEN Resp("add_ad_event", 404, "error", "Ad not found", {})
    ELSE IF fault = 2
    THEN StoreError("add_ad_event")
    ELSE IF ~Has(packages, package_name)
    THEN Resp("add_ad_event", 404, "error", "Package not found", {})
    ELSE NoResp

\* the two existence checks, in the order of the code: the response of the
\* check that fails, or NoResp
add_ad_event_missing(package_name, ad_id, fault) ==
    IF fault = 1
    THEN StoreError("add_ad_event")
    ELSE IF ~Has(packages, package_name)
    THEN Resp("add_ad_event", 404, "error", "Package not found", {})
    ELSE IF fault = 2
    THEN StoreError("add_ad_event")
    ELSE IF ~Has(ads, ad_id)
    THEN Resp("add_ad_event", 404, "error", "Ad not found", {})
    ELSE NoResp

\* a variant that counts a click for every event
ClickCountedAlways(data) == TRUE

\* if data['is_clicked']:
ClickCounted(data) == data["is_clicked"].v

add_ad_event_out(package_name, data, fault) ==
    LET ad_id == data["ad_id"].v
        missing == add_ad_event_missing(package_name, ad_id, fault)
        pushed == update_push(packages, package_name, ad_event(data))
        seen == update_inc(ads, ad_id, "number_of_impressions")
        clicked == update_inc(seen, ad_id, "number_of_clicks")
        ok200 == Resp("add_ad_event", 200, "message", "Ad event added successfully!", {})
    IN  IF IsResp(missing)
        THEN Out(ads, packages, missing)
        ELSE IF fault = 3
        THEN Out(ads, packages, StoreError("add_ad_event"))
        ELSE IF fault = 4 \/ IncFaults(ads, ad_id, "number_of_impressions")
        THEN Out(ads, pushed, StoreError("add_ad_event"))
        ELSE IF ~ClickCounted(data)
        THEN Out(seen, pushed, ok200)
        ELSE IF fault = 5 \/ IncFaults(seen, ad_id, "number_of_clicks")
        THEN Out(seen, pushed, StoreError("add_ad_event"))
        ELSE Out(clicked, pushed, ok200)

add_ad_event(package_name, data, ok, fault) ==
    IF IsResp(add_ad_event_invalid(data))
    THEN Reject(add_ad_event_invalid(data))
    ELSE Serve("add_ad_event", ok, add_ad_event_out(package_name, data, fault))

(***************************************************************************)
(* 8. add_ad_event, one store call at a time.  Request r has a position    *)
(* (idle, find_ad, push, inc, done) and the locals of the handler:         *)
(* package_name, data, ad (what find_one gave) and todo (the counters      *)
(* still to increment); status is the status it answered with.  A step     *)
(* is the code up to and with one call of the store; the answer is sent    *)
(* in the step of the last call.                                           *)
(***************************************************************************)
NoLocal == [f \in {} |-> Null]

Idle == [pc |-> "idle", package_name |-> "", data |-> NoLocal, ad |-> NoLocal,
         todo |-> <<>>, status |-> 0]

\* return jsonify(...), status: the request is over and its locals `ad' and
\* `todo' are gone; what was asked and the status answered stay on record
Return(r, response) ==
    /\ reqs' = [reqs EXCEPT ![r].pc = "done", ![r].status = response.status,
                            ![r].ad = NoLocal, ![r].todo = <<>>]
    /\ resp' = response

\* a variant that counts the click before the impression
counter_steps_clicks_first(data) ==
    IF ClickCounted(data)
    THEN <<"number_of_clicks", "number_of_impressions">>
    ELSE <<"number_of_impressions">>

\* the $inc calls of the handler, in the order of the code
counter_steps(data) ==
    IF ClickCounted(data)
    THEN <<"number_of_impressions", "number_of_clicks">>
    ELSE <<"number_of_impressions">>

\* a variant that writes back the counter it read with find_one, plus 1
inc_counter_from_read(c, id, field, ad) ==
    IF ~Has(c, id) THEN c
    ELSE update_set(c, id, [f \in {field} |-> JInt(Count(ad[field]) + 1)])

\* ads_collection.update_one({"_id": id}, {"$inc": {field: 1}}): the store
\* adds 1 to the value it holds; `ad', the document read before, has no part
inc_counter(c, id, field, ad) == update_inc(c, id, field)

\* the validation, get_db() and packages_collection.find_one
add_ad_event_begin(r, package_name, data, ok, fault) ==
    /\ pc = "serving"
    /\ reqs[r].pc = "idle"
    /\ \A q \in 1..(r - 1) : reqs[q].pc # "idle"
    /\ LET bad == add_ad_event_invalid(data)
           g == get_db(db, clients, ok)
       IN  IF IsResp(bad)
           THEN Return(r, bad) /\ UNCHANGED <<db, clients>>
           ELSE /\ db' = g.db
                /\ clients' = g.clients
                /\ IF g.db = None
                   THEN Return(r, CouldNotConnect("add_ad_event"))
                   ELSE IF fault = 1
                   THEN Return(r, StoreError("add_ad_event"))
                   ELSE IF ~Has(packages, package_name)
                   THEN Return(r, Resp("add_ad_event", 404, "error", "Package not found", {}))
                   ELSE /\ reqs' = [reqs EXCEPT ![r].pc = "find_ad",
                                                ![r].package_name = package_name,
                                                ![r].data = data]
                        /\ resp' = resp
    /\ UNCHANGED <<pc, ads, packages, hist>>

\* ad = ads_collection.find_one({"_id": data['ad_id']})
add_ad_event_find_ad(r, fault) ==
    /\ reqs[r].pc = "find_ad"
    /\ LET ad_id == reqs[r].data["ad_id"].v IN
       IF fault = 1
       THEN Return(r, StoreError("add_ad_event"))
       ELSE IF ~Has(ads, ad_id)
       THEN Return(r, Resp("add_ad_event", 404, "error", "Ad not found", {}))
       ELSE /\ reqs' = [reqs EXCEPT ![r].pc = "push", ![r].ad = ads[ad_id]]
            /\ resp' = resp
    /\ UNCHANGED <<pc, db, clients, ads, packages, hist>>

\* packages_collection.update_one(..., {"$push": {"ads_events": ad_event}})
add_ad_event_push(r, fault) ==
    /\ reqs[r].pc = "push"
    /\ IF fault = 1
       THEN Return(r, StoreError("add_ad_event")) /\ UNCHANGED packages
       ELSE /\ packages' = update_push(packages, reqs[r].package_name, ad_event(reqs[r].data))
            /\ reqs' = [reqs EXCEPT ![r].pc = "inc", ![r].todo = counter_steps(reqs[r].data)]
            /\ resp' = resp
    /\ UNCHANGED <<pc, db, clients, ads, hist>>

\* the next ads_collection.update_one(..., {"$inc": ...}); after the last one
\* the handler answers 200
add_ad_event_inc(r, fault) ==
    /\ reqs[r].pc = "inc"
    /\ LET ad_id == reqs[r].data["ad_id"].v
           field == Head(reqs[r].todo)
           rest == Tail(reqs[r].todo)
       IN  IF fault = 1 \/ IncFaults(ads, ad_id, field)
           THEN Return(r, StoreError("add_ad_event")) /\ UNCHANGED ads
           ELSE /\ ads' = inc_counter(ads, ad_id, field, reqs[r].ad)
                /\ IF rest = <<>>
                   THEN Return(r, Resp("add_ad_event", 200, "message",
                                       "Ad event added successfully!", {}))
                   ELSE /\ reqs' = [reqs EXCEPT ![r].todo = rest]
                        /\ resp' = resp
    /\ UNCHANGED <<pc, db, clients, packages, hist>>

(***************************************************************************)
(* The other handlers next to requests under way, with the history kept:   *)
(* hist[id] is the document uploaded under id (born), whether an update_ad *)
(* or a delete has reached it since (touched) and whether an update_ad has *)
(* set a counter of it (counters_set).  uuid.uuid4() gives an _id that was *)
(* not given before.                                                       *)
(***************************************************************************)
Touched(h, ids, counters) ==
    [id \in DOMAIN h |->
        IF id \in ids
        THEN [h[id] EXCEPT !.touched = TRUE, !.counters_set = @ \/ counters]
        ELSE h[id]]

upload_ad_fresh(data, uuid, ok, fault) ==
    /\ uuid \notin DOMAIN hist
    /\ ServeStore("upload_ad", ok, upload_ad_out(data, uuid, fault))
    /\ hist' = IF resp'.status = 201
               THEN insert_one(hist, uuid, [born |-> ads'[uuid], touched |-> FALSE,
                                            counters_set |-> FALSE])
               ELSE hist
    /\ UNCHANGED reqs

update_ad_noted(ad_id, data, ok, fault) ==
    IF IsResp(update_ad_invalid(data))
    THEN Reject(update_ad_invalid(data))
    ELSE /\ ServeStore("update_ad", ok, update_ad_out(ad_id, data, fault))
         /\ hist' = IF resp'.status = 200
                    THEN Touched(hist, {ad_id},
                                 DOMAIN update_data_of(data) \cap Range(CounterFields) # {})
                    ELSE hist
         /\ UNCHANGED reqs

delete_ad_noted(ad_id, ok, fault) ==
    /\ ServeStore("delete_ad", ok, delete_ad_out(ad_id, fault))
    /\ hist' = IF resp'.status = 200 THEN Touched(hist, {ad_id}, FALSE) ELSE hist
    /\ UNCHANGED reqs

delete_all_ads_noted(ok, fault) ==
    /\ ServeStore("delete_all_ads", ok, delete_all_ads_out(fault))
    /\ hist' = IF resp'.status = 200 THEN Touched(hist, DOMAIN ads, FALSE) ELSE hist
    /\ UNCHANGED reqs

(***************************************************************************)
(* 9. get_ad_analytics, 10. get_all_ad_analytics                           *)
(***************************************************************************)
\* n / d rounded to the nearest integer, ties to even (Python's round), n >= 0, d > 0
RoundDiv(n, d) ==
    LET q == n \div d
        r == n % d
    IN  IF 2 * r < d THEN q
        ELSE IF 2 * r > d THEN q + 1
        ELSE IF q % 2 = 0 THEN q ELSE q + 1

\* a variant that leaves the impressions out of the revenue
total_revenue_of_clicks(ad) ==
    (Milli(ad.price_per_click) * Milli(ad.number_of_clicks)) \div 1000

\* price_per_click * number_of_clicks + price_per_impression * number_of_impressions,
\* in thousandths
total_revenue(ad) ==
    (Milli(ad.price_per_click) * Milli(ad.number_of_clicks)
     + Milli(ad.price_per_impression) * Milli(ad.number_of_impressions)) \div 1000

\* the response body; total_revenue in hundredths, click_impression_ratio in
\* ten-thousandths
ad_analytics(ad) ==
    [ad_id |-> py_str(ad["_id"]).v,
     number_of_clicks |-> ad.number_of_clicks,
     number_of_impressions |-> ad.number_of_impressions,
     total_revenue |-> RoundDiv(total_revenue(ad), 10),
     click_impression_ratio |->
        IF Milli(ad.number_of_impressions) > 0
        THEN RoundDiv(10000 * Milli(ad.number_of_clicks), Milli(ad.number_of_impressions))
        ELSE 0]

get_ad_analytics_out(ad_id, fault) ==
    IF fault = 1
    THEN Out(ads, packages, StoreError("get_ad_analytics"))
    ELSE IF ~Has(ads, ad_id)
    THEN Out(ads, packages, Resp("get_ad_analytics", 404, "error", "Ad not found", {}))
    ELSE Out(ads, packages,
             Resp("get_ad_analytics", 200, "analytics", "", {ad_analytics(ads[ad_id])}))

get_ad_analytics(ad_id, ok, fault) ==
    Serve("get_ad_analytics", ok, get_ad_analytics_out(ad_id, fault))

get_all_ad_analytics_out(fault) ==
    IF fault = 1
    THEN Out(ads, packages, StoreError("get_all_ad_analytics"))
    ELSE Out(ads, packages,
             Resp("get_all_ad_analytics", 200, "analytics", "",
                  {ad_analytics(ads[id]) : id \in DOMAIN ads}))

get_all_ad_analytics(ok, fault) ==
    Serve("get_all_ad_analytics", ok, get_all_ad_analytics_out(fault))

(***************************************************************************)
(* Start-up.  app.py imports routes (line 5), whose module-level code      *)
(* calls get_db() and subscripts the result (routes.py lines 10-11); then  *)
(* app.py calls initialize_db() (line 11) and the application serves.      *)
(***************************************************************************)
ImportRoutes(ok) ==
    /\ pc = "boot"
    /\ LET g == get_db(db, clients, ok) IN
        /\ db' = g.db
        /\ clients' = g.clients
        \* db['ads'] with db None raises TypeError: the import fails
        /\ pc' = IF g.db = None THEN "crashed" ELSE "imported"
    /\ UNCHANGED <<ads, packages, resp, reqs, hist>>

InitApp(ok) ==
    /\ pc = "imported"
    /\ LET g == initialize_db(db, clients, ok) IN
        /\ db' = g.db
        /\ clients' = g.clients
    /\ pc' = "serving"
    /\ UNCHANGED <<ads, packages, resp, reqs, hist>>

(***************************************************************************)
(* The requests of the model.                                              *)
(***************************************************************************)
With(d, key, x) == [f \in DOMAIN d \cup {key} |-> IF f = key THEN x ELSE d[f]]
Without(d, key) == [f \in DOMAIN d \ {key} |-> d[f]]
Body1(key, x) == [f \in {key} |-> x]
Empty == [f \in {} |-> Null]

\* one value of every JSON kind
JsonValues == {JStr("v2"), JInt(1), JFloat(250), JBool(TRUE), Null, Array, Object}

BaseAd ==
    [video_link |-> JStr("v1"),
     advertiser_link |-> JStr("a1"),
     advertiser_icon |-> JStr("i1"),
     price_per_click |-> JFloat(500),
     price_per_impression |-> JFloat(100)]

UploadBodies ==
    {BaseAd,
     With(BaseAd, "_id", JStr("Y")),
     Without(BaseAd, "video_link"),
     With(BaseAd, "price_per_impression", JStr("v2"))}

UpdateBodies ==
    {Empty,
     Body1("number_of_clicks", JInt(0)),
     Body1("number_of_clicks", JBool(TRUE)),
     With(Body1("video_link", JStr("v2")), "bogus", JInt(1))}

\* the package names add_ad_event is called with: "pkg2" is never created
EventPkgs == PkgNames \cup {"pkg2"}

EventBodies ==
    {[ad_id |-> JStr(a), is_clicked |-> JBool(c)] : a \in AdIds, c \in BOOLEAN}
    \cup {Body1("ad_id", JStr("X")),
          [ad_id |-> JStr("X"), is_clicked |-> JInt(1)]}

TotalEvents == LET RECURSIVE Sum(_)
                   Sum(S) == IF S = {} THEN 0
                             ELSE LET p == CHOOSE x \in S : TRUE
                                  IN  Len(packages[p].ads_events) + Sum(S \ {p})
               IN  Sum(DOMAIN packages)

Init ==
    /\ pc = "boot"
    /\ db = None
    /\ clients = 0
    /\ ads = Empty
    /\ packages = Empty
    /\ resp = NoResp
    /\ reqs = [r \in 1..MaxReqs |-> Idle]
    /\ hist = Empty

Next ==
    \/ \E ok \in Pings : ImportRoutes(ok)
    \/ \E ok \in Pings : InitApp(ok)
    \/ \E data \in UploadBodies, uuid \in AdIds, ok \in Pings, fault \in 0..1 :
            upload_ad(data, uuid, ok, fault)
    \/ \E pick \in AdIds, ok \in Pings, fault \in 0..1 : get_random_ad(pick, ok, fault)
    \/ \E ad_id \in AdIds, data \in UpdateBodies, ok \in Pings, fault \in 0..1 :
            update_ad(ad_id, data, ok, fault)
    \/ \E ok \in Pings, fault \in 0..1 : get_all_ads(ok, fault)
    \/ \E ad_id \in AdIds, ok \in Pings, fault \in 0..1 : delete_ad(ad_id, ok, fault)
    \/ \E ok \in Pings, fault \in 0..1 : delete_all_ads(ok, fault)
    \/ \E package_name \in PkgNames, ok \in Pings, fault \in 0..2 :
            create_package(package_name, ok, fault)
    \/ \E package_name \in EventPkgs, data \in EventBodies, ok \in Pings, fault \in 0..5 :
            /\ TotalEvents < MaxEvents
            /\ add_ad_event(package_name, data, ok, fault)
    \/ \E ad_id \in AdIds, ok \in Pings, fault \in 0..1 : get_ad_analytics(ad_id, ok, fault)
    \/ \E ok \in Pings, fault \in 0..1 : get_all_ad_analytics(ok, fault)

Spec == Init /\ [][Next]_vars

(***************************************************************************)
(* The specification of the request validation: upload_ad and update_ad    *)
(* with bodies that put a value of every JSON kind under every field, on   *)
(* one ad; update_ad is called on the ad as BaseAd uploads it.             *)
(***************************************************************************)
AdKeys == DOMAIN expected_field_types
WideKeys == AdKeys \cup {"bogus"}

WideUploadBodies ==
    {BaseAd, With(With(BaseAd, "number_of_clicks", JInt(1)), "number_of_impressions", JInt(2))}
    \cup {With(BaseAd, key, x) : key \in AdKeys \cup {"_id"}, x \in JsonValues}
    \cup {Without(BaseAd, key) : key \in DOMAIN BaseAd}

WideUpdateBodies ==
    {Empty}
    \cup {Body1(key, x) : key \in WideKeys, x \in JsonValues}
    \cup {With(Body1("video_link", JStr("v2")), key, x) :
            key \in WideKeys \ {"video_link"}, x \in JsonValues}

AsUploaded(ad_id) == Has(ads, ad_id) => ads[ad_id] = ad_object(BaseAd, ad_id)

NextValidation ==
    \/ \E ok \in Pings : ImportRoutes(ok)
    \/ \E ok \in Pings : InitApp(ok)
    \/ \E data \in WideUploadBodies, ok \in Pings, fault \in 0..1 :
            upload_ad(data, "X", ok, fault)
    \/ \E ad_id \in AdIds, data \in WideUpdateBodies, ok \in Pings, fault \in 0..1 :
            /\ AsUploaded(ad_id)
            /\ update_ad(ad_id, data, ok, fault)
    \/ \E ok \in Pings, fault \in 0..1 : get_all_ads(ok, fault)
    \/ \E ad_id \in AdIds, ok \in Pings, fault \in 0..1 : delete_ad(ad_id, ok, fault)

SpecValidation == Init /\ [][NextValidation]_vars

(***************************************************************************)
(* The specification of concurrent requests: add_ad_event call by call,    *)
(* next to the handlers that write to the ads and the packages.            *)
(***************************************************************************)
\* an ad with no counters given, and one with a click and no impression
CounterUploadBodies == {BaseAd, With(BaseAd, "number_of_clicks", JInt(1))}

CounterUpdateBodies == {Body1("number_of_clicks", JInt(3))}

\* the _id that uuid.uuid4() gives, and the ads the events are of
ConcIds == {"X"}
ClickBodies == {[ad_id |-> JStr(a), is_clicked |-> JBool(c)] : a \in ConcIds, c \in BOOLEAN}

NextConc ==
    \/ \E ok \in Pings : ImportRoutes(ok)
    \/ \E ok \in Pings : InitApp(ok)
    \/ \E data \in CounterUploadBodies, uuid \in ConcIds, ok \in Pings :
            upload_ad_fresh(data, uuid, ok, 0)
    \/ \E ad_id \in ConcIds, data \in CounterUpdateBodies, ok \in Pings :
            update_ad_noted(ad_id, data, ok, 0)
    \/ \E ad_id \in ConcIds, ok \in Pings : delete_ad_noted(ad_id, ok, 0)
    \/ \E ok \in Pings : delete_all_ads_noted(ok, 0)
    \/ \E package_name \in PkgNames, ok \in Pings : create_package(package_name, ok, 0)
    \/ \E r \in 1..MaxReqs, package_name \in PkgNames, data \in ClickBodies,
          ok \in Pings, fault \in 0..1 :
            add_ad_event_begin(r, package_name, data, ok, fault)
    \/ \E r \in 1..MaxReqs, fault \in 0..1 : add_ad_event_find_ad(r, fault)
    \/ \E r \in 1..MaxReqs, fault \in 0..1 : add_ad_event_push(r, fault)
    \/ \E r \in 1..MaxReqs, fault \in 0..1 : add_ad_event_inc(r, fault)

SpecConc == Init /\ [][NextConc]_vars

(***************************************************************************)
(* The properties.                                                         *)
(***************************************************************************)
\* the requests add_ad_event accepts
ValidEventBodies == {data \in EventBodies : ~IsResp(add_ad_event_invalid(data))}

\* document d1 is d0 but for the fields in `changed'
SameBut(d1, d0, changed) ==
    /\ DOMAIN d1 = DOMAIN d0
    /\ \A f \in DOMAIN d0 \ changed : d1[f] = d0[f]

\* collection c1 is c0 but for the documents in `changed'
SameDocsBut(c1, c0, changed) ==
    /\ DOMAIN c1 = DOMAIN c0
    /\ \A id \in DOMAIN c0 \ changed : c1[id] = c0[id]

\* the counter x with n added to it
Plus(x, n) == IF n = 0 THEN x ELSE [k |-> x.k, v |-> Count(x) + n]

\* C1: an add_ad_event(P, {ad_id: A, is_clicked: c}) that answers 200 has
\* appended exactly one event {ad_id = A, is_clicked = c} at the end of P's
\* ads_events, has added 1 to A's number_of_impressions, and has added 1 to
\* A's number_of_clicks if c and 0 if not; nothing else has changed.
C1_RecordEventEffects ==
    [][(resp'.op = "add_ad_event" /\ resp'.status = 200) =>
        \A P \in EventPkgs, data \in ValidEventBodies, fault \in 0..5 :
            add_ad_event(P, data, TRUE, fault) =>
                LET A == data["ad_id"].v
                    c == data["is_clicked"].v
                IN  /\ Has(packages, P) /\ Has(ads, A)
                    /\ SameDocsBut(packages', packages, {P})
                    /\ SameBut(packages'[P], packages[P], {"ads_events"})
                    /\ Len(packages'[P].ads_events) = Len(packages[P].ads_events) + 1
                    /\ SubSeq(packages'[P].ads_events, 1, Len(packages[P].ads_events))
                            = packages[P].ads_events
                    /\ LET e == packages'[P].ads_events[Len(packages'[P].ads_events)]
                       IN  e.ad_id = A /\ e.is_clicked = c
                    /\ SameDocsBut(ads', ads, {A})
                    /\ SameBut(ads'[A], ads[A], {"number_of_impressions", "number_of_clicks"})
                    /\ ads'[A].number_of_impressions = Plus(ads[A].number_of_impressions, 1)
                    /\ ads'[A].number_of_clicks
                            = Plus(ads[A].number_of_clicks, IF c THEN 1 ELSE 0)
      ]_vars

\* an event without a click after an event with one, both on ad X in pkg1
C1_Witness ==
    /\ resp.op = "add_ad_event" /\ resp.status = 200
    /\ Has(packages, "pkg1") /\ Has(ads, "X")
    /\ Len(packages["pkg1"].ads_events) = 2
    /\ packages["pkg1"].ads_events[1] = [ad_id |-> "X", date_time |-> date_time, is_clicked |-> TRUE]
    /\ packages["pkg1"].ads_events[2] = [ad_id |-> "X", date_time |-> date_time, is_clicked |-> FALSE]
    /\ ads["X"].number_of_clicks = JInt(1)
    /\ ads["X"].number_of_impressions = JInt(2)

\* C2: with no fault of the store, an add_ad_event for a package that does
\* not exist answers 404 "Package not found", also when the ad does not
\* exist either; for an existing package and an ad that does not exist it
\* answers 404 "Ad not found"; in both cases no package and no ad changes.
C2_PackageThenAd ==
    [][resp'.op = "add_ad_event" =>
        \A P \in EventPkgs, data \in ValidEventBodies :
            /\ ~Has(packages, P) =>
                    (add_ad_event(P, data, TRUE, 0) =>
                        /\ resp'.status = 404 /\ resp'.msg = "Package not found"
                        /\ ads' = ads /\ packages' = packages)
            /\ (Has(packages, P) /\ ~Has(ads, data["ad_id"].v)) =>
                    (add_ad_event(P, data, TRUE, 0) =>
                        /\ resp'.status = 404 /\ resp'.msg = "Ad not found"
                        /\ ads' = ads /\ packages' = packages)
      ]_vars

\* "Package not found" for a package that is not there, asked with an ad
\* that is not there either (no ad is)
C2_Witness ==
    /\ resp.op = "add_ad_event" /\ resp.status = 404 /\ resp.msg = "Package not found"
    /\ DOMAIN packages = {"pkg1"}
    /\ DOMAIN ads = {}

\* C3: with no fault of the store, create_package answers 200; for a name
\* that exists it leaves the package and its ads_events as they are, for a
\* name that does not it adds one package with an empty ads_events; so two
\* calls, with any add_ad_event between them, leave one package and the
\* second changes nothing.
C3_EnsurePackageIdempotent ==
    [][resp'.op = "create_package" =>
        \A name \in PkgNames :
            create_package(name, TRUE, 0) =>
                /\ resp'.status = 200
                /\ ads' = ads
                /\ Has(packages', name)
                /\ Has(packages, name) => packages' = packages
                /\ ~Has(packages, name) =>
                        /\ DOMAIN packages' = DOMAIN packages \cup {name}
                        /\ packages'[name].ads_events = <<>>
                        /\ \A q \in DOMAIN packages : packages'[q] = packages[q]
      ]_vars

\* the second call, on a package that has events
C3_Witness ==
    /\ resp.op = "create_package" /\ resp.status = 200
    /\ resp.msg = "Package already exists."
    /\ Has(packages, "pkg1")
    /\ Len(packages["pkg1"].ads_events) > 0

\* the allow-list of update_ad, as the specification gives it
AllowList ==
    {"advertiser_icon", "advertiser_link", "video_link", "number_of_clicks",
     "number_of_impressions", "price_per_click", "price_per_impression"}

\* C4: an update_ad whose body has a key outside the allow-list answers 400
\* and changes no field of any ad, whatever its other keys and values are:
\* a step of update_ad that does anything else is of no such body.
C4_UnknownKeyRejectsAll ==
    [][(resp'.op = "update_ad" /\ ~(resp'.status = 400 /\ ads' = ads)) =>
        \A ad_id \in AdIds, data \in WideUpdateBodies, fault \in 0..1 :
            DOMAIN data \ AllowList # {} => ~update_ad(ad_id, data, TRUE, fault)
      ]_vars

\* the refusal names the unknown key only: the other key of the body was valid
C4_Witness ==
    /\ resp.op = "update_ad" /\ resp.status = 400 /\ resp.msg = "Invalid input"
    /\ resp.detail = {[field |-> "bogus", msg |-> "Invalid field provided"]}
    /\ Has(ads, "X") /\ ads["X"] = ad_object(BaseAd, "X")

\* the types of the fields as the specification gives them: a string field
\* takes a string, a counter an integer, a price an integer or a float
SpecTypeOK(key, x) ==
    CASE key \in {"advertiser_icon", "advertiser_link", "video_link"} -> x.k = "str"
      [] key \in {"number_of_clicks", "number_of_impressions"} -> x.k = "int"
      [] key \in {"price_per_click", "price_per_impression"} -> x.k \in {"int", "float"}

\* C5: an update_ad of an ad in the store whose body gives some field a value
\* that is not of the field's type answers 400 and changes no ad, for every
\* JSON kind of value.
C5_IllTypedRejected ==
    [][resp'.op = "update_ad" =>
        \A ad_id \in AdIds, data \in WideUpdateBodies :
            (/\ update_ad(ad_id, data, TRUE, 0)
             /\ Has(ads, ad_id)
             /\ \E key \in DOMAIN data \cap AllowList : ~SpecTypeOK(key, data[key])) =>
                /\ resp'.status = 400
                /\ ads' = ads
      ]_vars

\* what get_ad_analytics answers for ad X with 2 clicks and 2 impressions at
\* 0.5 a click and 0.1 an impression: 1.20 and 1.0
ScenarioAnalytics(X) ==
    [ad_id |-> X,
     number_of_clicks |-> JInt(2),
     number_of_impressions |-> JInt(2),
     total_revenue |-> 120,
     click_impression_ratio |-> 10000]

\* C6: the scenario, step by step.  upload_ad of BaseAd (0.5 a click, 0.1 an
\* impression, no counters) stores an ad with both counters 0; each
\* add_ad_event("pkg1", X, is_clicked = true) that answers 200 adds 1 to both
\* counters of X and leaves its prices; get_ad_analytics(X) of the ad the two
\* events leave (2 clicks, 2 impressions) answers 200 with number_of_clicks 2,
\* number_of_impressions 2, total_revenue 1.20 and click_impression_ratio
\* 1.0, and changes no record.
C6_Scenario ==
    [][/\ (resp'.op = "upload_ad" /\ resp'.status = 201) =>
            \A X \in AdIds :
                upload_ad(BaseAd, X, TRUE, 0) =>
                    /\ resp'.detail = X
                    /\ Has(ads', X)
                    /\ ads'[X].number_of_clicks = JInt(0)
                    /\ ads'[X].number_of_impressions = JInt(0)
                    /\ ads'[X].price_per_click = JFloat(500)
                    /\ ads'[X].price_per_impression = JFloat(100)
       /\ (resp'.op = "add_ad_event" /\ resp'.status = 200) =>
            \A X \in AdIds :
                add_ad_event("pkg1", [ad_id |-> JStr(X), is_clicked |-> JBool(TRUE)], TRUE, 0) =>
                    /\ ads'[X].number_of_clicks = Plus(ads[X].number_of_clicks, 1)
                    /\ ads'[X].number_of_impressions = Plus(ads[X].number_of_impressions, 1)
                    /\ ads'[X].price_per_click = ads[X].price_per_click
                    /\ ads'[X].price_per_impression = ads[X].price_per_impression
       /\ resp'.op = "get_ad_analytics" =>
            \A X \in AdIds :
                (/\ get_ad_analytics(X, TRUE, 0)
                 /\ Has(ads, X)
                 /\ ads[X].price_per_click = JFloat(500)
                 /\ ads[X].price_per_impression = JFloat(100)
                 /\ ads[X].number_of_clicks = JInt(2)
                 /\ ads[X].number_of_impressions = JInt(2)) =>
                    /\ resp'.status = 200
                    /\ resp'.detail = {ScenarioAnalytics(X)}
                    /\ ads' = ads
                    /\ packages' = packages
      ]_vars

\* the analytics of X after two events with a click on X in pkg1
C6_Witness ==
    /\ resp.op = "get_ad_analytics" /\ resp.status = 200
    /\ resp.detail = {ScenarioAnalytics("X")}
    /\ Has(packages, "pkg1")
    /\ packages["pkg1"].ads_events
            = << [ad_id |-> "X", date_time |-> date_time, is_clicked |-> TRUE],
                 [ad_id |-> "X", date_time |-> date_time, is_clicked |-> TRUE] >>
    /\ Has(ads, "X") /\ ads["X"].number_of_clicks = JInt(2)

\* C7: delete_all_ads on an empty collection answers "No ads to delete" with
\* a status that is no error status (neither 4xx nor 5xx) and leaves the
\* store as it is; on a collection that is not empty it removes every ad and
\* answers 200.
C7_NothingToDeleteIsNoError ==
    [][resp'.op = "delete_all_ads" =>
        (delete_all_ads(TRUE, 0) =>
            /\ DOMAIN ads = {} =>
                    /\ resp'.msg = "No ads to delete"
                    /\ resp'.status \notin 400..599
                    /\ ads' = ads /\ packages' = packages
            /\ DOMAIN ads # {} =>
                    /\ resp'.status = 200
                    /\ DOMAIN ads' = {} /\ packages' = packages)
      ]_vars

\* the record that a fetch of id finds among the ads get_all_ads returns
Fetched(c, id) == {d \in all_ads(c) : d["_id"] = JStr(id)}

\* C8, as claimed: after an upload_ad that answers 201, the ad of the
\* returned id that get_all_ads returns has the five fields of the body, the
\* generated id, and both counters 0.
C8_RoundTripZeroCounters ==
    [][(resp'.op = "upload_ad" /\ resp'.status = 201) =>
        \A data \in WideUploadBodies, uuid \in AdIds :
            upload_ad(data, uuid, TRUE, 0) =>
                /\ resp'.detail = uuid
                /\ Cardinality(Fetched(ads', resp'.detail)) = 1
                /\ \A d \in Fetched(ads', resp'.detail) :
                    /\ \A f \in Range(required_fields) : d[f] = data[f]
                    /\ d.number_of_clicks = JInt(0)
                    /\ d.number_of_impressions = JInt(0)
      ]_vars

\* C8, amended: ... and each counter is the one the body gives, 0 when the
\* body gives none.
C8_RoundTrip ==
    [][(resp'.op = "upload_ad" /\ resp'.status = 201) =>
        \A data \in WideUploadBodies, uuid \in AdIds :
            upload_ad(data, uuid, TRUE, 0) =>
                /\ resp'.detail = uuid
                /\ Cardinality(Fetched(ads', resp'.detail)) = 1
                /\ \A d \in Fetched(ads', resp'.detail) :
                    /\ \A f \in Range(required_fields) : d[f] = data[f]
                    /\ \A f \in Range(CounterFields) : d[f] = Get(data, f, JInt(0))
      ]_vars

\* an ad uploaded with counters 1 and 2
C8_Witness ==
    /\ resp.op = "upload_ad" /\ resp.status = 201 /\ resp.detail = "X"
    /\ Fetched(ads, "X") # {}
    /\ \A d \in Fetched(ads, "X") :
        /\ d.number_of_clicks = JInt(1)
        /\ d.number_of_impressions = JInt(2)
        /\ d.price_per_click = JFloat(500)

\* C9: once the initialization at the start has failed (the handle is None)
\* the application serves, every response it gives is "Could not connect to
\* the database", and no call makes a new client: there is at most one
\* attempt, the one at the start.
C9_UnavailableHandleIsReported ==
    /\ clients <= 1
    /\ (clients > 0 /\ db = None) =>
            /\ pc = "serving"
            /\ IsResp(resp) => resp.msg = "Could not connect to the database"

\* C10, as claimed: from one state to the next no counter of an ad that
\* stays in the store decreases, and one that changes does so by add_ad_event.
C10_CountersOnlyByEvents ==
    [][\A id \in DOMAIN ads \cap DOMAIN ads', f \in Range(CounterFields) :
            /\ Count(ads'[id][f]) >= Count(ads[id][f])
            /\ ads'[id][f] # ads[id][f] => resp'.op = "add_ad_event"
      ]_vars

\* C10, amended: a counter of an ad that stays in the store changes only by
\* add_ad_event, which adds 1 to it, or by an update_ad of that ad whose body
\* has that counter, which sets it to the value given (lower or not).
C10_CountersByEventsOrUpdate ==
    [][/\ ads' # ads =>
            \A id \in DOMAIN ads \cap DOMAIN ads', f \in Range(CounterFields) :
                ads'[id][f] # ads[id][f] =>
                    \/ resp'.op = "add_ad_event" /\ ads'[id][f] = Plus(ads[id][f], 1)
                    \/ resp'.op = "update_ad" /\ resp'.status = 200
       /\ (resp'.op = "update_ad" /\ resp'.status = 200) =>
            \A ad_id \in AdIds, data \in UpdateBodies :
                update_ad(ad_id, data, TRUE, 0) =>
                    \A id \in DOMAIN ads \cap DOMAIN ads', f \in Range(CounterFields) :
                        ads'[id][f] =
                            IF id = ad_id /\ f \in DOMAIN data
                            THEN data[f] ELSE ads[id][f]
      ]_vars

\* an update_ad has put number_of_clicks back to 0 after two events
C10_Witness ==
    /\ resp.op = "update_ad" /\ resp.status = 200
    /\ Has(ads, "X")
    /\ ads["X"].number_of_clicks = JInt(0)
    /\ ads["X"].number_of_impressions = JInt(2)

\* the requests taken call by call that have begun, and those of them that
\* have answered 200 for ad a, with a click or whatever
Begun == {r \in 1..MaxReqs : reqs[r].pc # "idle"}
Succeeded(a, clicks) ==
    {r \in 1..MaxReqs :
        /\ reqs[r].pc = "done" /\ reqs[r].status = 200
        /\ reqs[r].data["ad_id"].v = a
        /\ clicks => reqs[r].data["is_clicked"].v}

\* C11: when the add_ad_event requests that have begun, interleaved call by
\* call in whatever way, have all answered 200 and are all of the same ad,
\* which no update_ad and no delete has touched since its upload, then the
\* ad's number_of_impressions is the uploaded one plus the number N of the
\* requests and its number_of_clicks the uploaded one plus the number K of
\* those with is_clicked = true.
C11_NoLostUpdates ==
    \A a \in DOMAIN ads :
        (/\ ~hist[a].touched
         /\ Begun = Succeeded(a, FALSE)) =>
            /\ Count(ads[a].number_of_impressions)
                    = Count(hist[a].born.number_of_impressions) + Cardinality(Succeeded(a, FALSE))
            /\ Count(ads[a].number_of_clicks)
                    = Count(hist[a].born.number_of_clicks) + Cardinality(Succeeded(a, TRUE))

\* two requests of ad X, uploaded with one click, have answered 200; they
\* overlapped: the second to begin (no click) pushed its event before the
\* first (a click) did
C11_Witness ==
    /\ Has(ads, "X") /\ ~hist["X"].touched
    /\ hist["X"].born.number_of_clicks = JInt(1)
    /\ Succeeded("X", FALSE) = {1, 2} /\ Succeeded("X", TRUE) = {1}
    /\ packages["pkg1"].ads_events
            = << [ad_id |-> "X", date_time |-> date_time, is_clicked |-> FALSE],
                 [ad_id |-> "X", date_time |-> date_time, is_clicked |-> TRUE] >>
    /\ ads["X"].number_of_impressions = JInt(2)
    /\ ads["X"].number_of_clicks = JInt(2)

\* C12: under every interleaving of add_ad_event with delete_ad and
\* delete_all_ads, the step of a request that appends its event to the
\* package's ads_events finds the ad of the event's ad_id in the ads
\* collection, and the impressions call of a request that answers 200 with
\* it has added 1 to that ad's number_of_impressions.
C12_EventOfExistingAd ==
    [][reqs' # reqs =>
        \A r \in 1..MaxReqs :
            /\ (reqs[r].pc = "push" /\ reqs'[r].pc = "inc") =>
                    /\ packages' # packages
                    /\ Has(ads, reqs[r].data["ad_id"].v)
            /\ (/\ reqs[r].pc = "inc" /\ reqs[r].todo = <<"number_of_impressions">>
                /\ reqs'[r].pc = "done" /\ reqs'[r].status = 200) =>
                    /\ Has(ads, reqs[r].data["ad_id"].v)
                    /\ ads'[reqs[r].data["ad_id"].v].number_of_impressions
                            = Plus(ads[reqs[r].data["ad_id"].v].number_of_impressions, 1)
      ]_vars

\* C13: in every state, the states between the store calls of interleaved
\* add_ad_event requests among them, an ad that was uploaded with
\* number_of_clicks <= number_of_impressions and of which no update_ad has
\* set a counter has number_of_clicks <= number_of_impressions.
C13_ClicksAtMostImpressions ==
    \A a \in DOMAIN ads :
        (/\ Count(hist[a].born.number_of_clicks) <= Count(hist[a].born.number_of_impressions)
         /\ ~hist[a].counters_set) =>
            Count(ads[a].number_of_clicks) <= Count(ads[a].number_of_impressions)

\* two requests with a click, both between their two $inc calls: ad X,
\* uploaded with no counters, has two impressions and no click yet
C13_Witness ==
    /\ Has(ads, "X") /\ ~hist["X"].counters_set
    /\ hist["X"].born.number_of_clicks = JInt(0)
    /\ hist["X"].born.number_of_impressions = JInt(0)
    /\ \A r \in {1, 2} : reqs[r].pc = "inc" /\ reqs[r].todo = <<"number_of_clicks">>
    /\ ads["X"].number_of_impressions = JInt(2)
    /\ ads["X"].number_of_clicks = JInt(0)

====
